---- MODULE Spec2Model ----
(***************************************************************************)
(* Model of recipe.py (BiteByType): the Spoonacular adapters built on the  *)
(* memoized fetch_api, the AllRecipes scraper, the Yelp lookup             *)
(* get_restaurants and the top-level Streamlit script that dispatches to   *)
(* them.  Python values are records tagged by the field t; a backend is an *)
(* input that answers every outbound request with a response.              *)
(***************************************************************************)
EXTENDS Integers, Sequences, FiniteSets, TLC

\* ------------------------------------------------------------------ bounds
\* number of top-level calls (adapter calls or script runs) in one process
MaxCalls == 2
\* longest result list a recipe backend answers with
MaxResults == 2
\* longest business list the Yelp backend answers with
MaxBusinesses == 7
\* most recipe links on a category page
MaxLinks == 1

\* ------------------------------------------------------- Python values
None_ == [t |-> "None"]

\* the selection a widget created with index=None returns: Python None
NoSel == "<None>"

\* a recipe object of the backend; cuisine "<nokey>" is a dict without the
\* key; keys: which of "title", "image", "instructions", "nutrition" it has
Recipe(i, c, keys) == [t |-> "recipe", id |-> i, cuisine |-> c, keys |-> keys]

Recipes ==
    {Recipe(1, "<nokey>", {"title", "image", "instructions", "nutrition"}),
     Recipe(2, "Thai", {})}

\* a JSON object: has = the endpoint's result key is present (items its list),
\* other = some other key is present
Dict(has, other, items) == [t |-> "dict", has |-> has, other |-> other, items |-> items]

\* a JSON array
List(items) == [t |-> "list", items |-> items]

SeqsUpTo(S, n) == UNION {[1..k -> S] : k \in 0..n}

\* bool(v) of Python
Truthy(v) ==
    CASE v.t = "None" -> FALSE
      [] v.t = "dict" -> v.has \/ v.other
      [] v.t = "list" -> Len(v.items) > 0
      [] v.t = "recipe" -> TRUE
      [] v.t = "scraped" -> TRUE

\* ------------------------------------------------------- backend responses
\* status "exc": requests.get raises a RequestException; "http": a status
\* other than 200; "ok": status 200 with the JSON body
Resp(status, body) == [status |-> status, body |-> body]

Failures == {Resp("exc", None_), Resp("http", None_)}

\* answers of an endpoint whose body is an object with a result list
DictResponses ==
    Failures
    \cup {Resp("ok", Dict(FALSE, FALSE, <<>>)), Resp("ok", Dict(FALSE, TRUE, <<>>))}
    \cup {Resp("ok", Dict(TRUE, FALSE, l)) : l \in SeqsUpTo(Recipes, MaxResults)}

\* answers of findByNutrients: an array of results, or an error object
ListResponses ==
    Failures
    \cup {Resp("ok", Dict(FALSE, TRUE, <<>>))}
    \cup {Resp("ok", List(l)) : l \in SeqsUpTo(Recipes, MaxResults)}

\* answers of recipes/{id}/information: the recipe, or a failure
InfoResponses == Failures \cup {Resp("ok", r) : r \in Recipes}

\* ------------------------------------------------------------ the table
PERSONALITY_TO_CUISINE ==
    [p \in {"Openness", "Conscientiousness", "Extraversion", "Agreeableness",
            "Neuroticism", "Adventurous", "Analytical", "Creative", "Traditional"} |->
      CASE p = "Openness" -> <<"Japanese", "Indian", "Mediterranean">>
        [] p = "Conscientiousness" -> <<"Balanced", "Low-Carb", "Mediterranean">>
        [] p = "Extraversion" -> <<"BBQ", "Mexican", "Italian">>
        [] p = "Agreeableness" -> <<"Vegetarian", "Comfort Food", "Vegan">>
        [] p = "Neuroticism" -> <<"Healthy", "Mediterranean", "Comfort Food">>
        [] p = "Adventurous" -> <<"Thai", "Korean", "Ethiopian">>
        [] p = "Analytical" -> <<"French", "Greek", "Fusion">>
        [] p = "Creative" -> <<"Molecular Gastronomy", "Experimental", "Fusion">>
        [] p = "Traditional" -> <<"American", "British", "German">>]

\* ------------------------------------------------- outcome of a function
\* the two st.cache_data stores of the process: fetch_api's and get_restaurants'
Stores(f, r) == [fetch |-> f, rest |-> r]

\* ret: the value returned; raised: the exception that left the function ("" if
\* none); reqs: the requests sent, in order; resps: the answers they got;
\* memo: one entry per call of a function the spec names as memoized;
\* store: the st.cache_data stores afterwards
Out(ret, raised, reqs, resps, memo, store) ==
    [ret |-> ret, raised |-> raised, reqs |-> reqs, resps |-> resps,
     memo |-> memo, store |-> store]

Raise(o, exc) == [o EXCEPT !.ret = None_, !.raised = exc]

Return(o, v) == [o EXCEPT !.ret = v]

\* a function reached a call that waits on the network again: o is its outcome
\* so far, next = <<id>> the recipe whose details it asks for next (<<>>: the
\* function has returned or raised, o is its outcome)
Step(o, next) == [o |-> o, next |-> next]

\* one call of a function the spec names as memoized: hit = its arguments were
\* in the function's store, sent = the requests this call sent
MemoCall(fn, key, hit, sent, ret) ==
    [fn |-> fn, key |-> key, hit |-> hit, sent |-> sent, ret |-> ret]

\* ------------------------------------------------------------- fetch_api
\* what the body of fetch_api returns for a response
FetchBody(resp) == IF resp.status = "ok" THEN resp.body ELSE None_

\* @st.cache_data: a call with arguments already in the store returns the stored
\* value and does not run the body.  The decorator computes a missing value
\* under a lock of its own per argument key and looks the key up again once it
\* holds the lock, so calls with the same arguments do not overlap and a call
\* is one step; calls with other arguments touch other keys.
fetch_api(store, key, resp) ==
    IF key \in DOMAIN store.fetch
    THEN Out(store.fetch[key], "", <<>>, <<>>,
             <<MemoCall("fetch_api", key, TRUE, 0, store.fetch[key])>>, store)
    ELSE LET v == FetchBody(resp)
         IN Out(v, "", <<key>>, <<resp>>,
                <<MemoCall("fetch_api", key, FALSE, 1, v)>>,
                Stores(store.fetch @@ (key :> v), store.rest))

\* ------------------------------------------------- get_recipe_by_personality
\* Cuisine taking the table's second entry
Cuisine_second(personality) ==
    IF personality \in DOMAIN PERSONALITY_TO_CUISINE
    THEN PERSONALITY_TO_CUISINE[personality][2]
    ELSE <<"Italian">>[1]

Cuisine(personality) ==
    IF personality \in DOMAIN PERSONALITY_TO_CUISINE
    THEN PERSONALITY_TO_CUISINE[personality][1]
    ELSE <<"Italian">>[1]

\* get_recipe_by_personality asking once more, without the diet, when the
\* filtered request got nothing
get_recipe_by_personality_fallback(store, personality, diet, r1) ==
    LET key == [ep |-> "random", diet |-> diet, cuisine |-> Cuisine(personality)]
        f == fetch_api(store, key, r1)
        g == fetch_api(f.store, [ep |-> "random", cuisine |-> Cuisine(personality)], r1)
        o == IF Truthy(f.ret) THEN f ELSE [g EXCEPT !.reqs = f.reqs \o g.reqs,
                                                   !.resps = f.resps \o g.resps,
                                                   !.memo = f.memo \o g.memo]
        data == o.ret
    IN IF ~Truthy(data) THEN [o EXCEPT !.ret = None_]
       ELSE IF data.t # "dict" THEN [o EXCEPT !.ret = None_, !.raised = "AttributeError"]
       ELSE IF ~data.has THEN [o EXCEPT !.ret = None_]
       ELSE IF Len(data.items) = 0 THEN [o EXCEPT !.ret = None_, !.raised = "IndexError"]
       ELSE [o EXCEPT !.ret = data.items[1]]

get_recipe_by_personality(store, personality, diet, r1) ==
    LET key == [ep |-> "random", diet |-> diet, cuisine |-> Cuisine(personality)]
        f == fetch_api(store, key, r1)
        data == f.ret
    IN IF ~Truthy(data) THEN Return(f, None_)
       ELSE IF data.t # "dict" THEN Raise(f, "AttributeError")
       ELSE IF ~data.has THEN Return(f, <<None_>>[1])
       ELSE IF Len(data.items) = 0 THEN Raise(f, "IndexError")
       ELSE Return(f, data.items[1])

\* --------------------------------------------------- get_recipe_details_by_id
get_recipe_details_by_id(store, recipe_id, r2) ==
    fetch_api(store, [ep |-> "information", id |-> recipe_id], r2)

\* o1 followed by o2, o2 having started from o1's stores: o2's result
Then(o1, o2) ==
    [o2 EXCEPT !.reqs = o1.reqs \o o2.reqs, !.resps = o1.resps \o o2.resps,
               !.memo = o1.memo \o o2.memo]

\* -------------------------------------------------- get_recipe_by_ingredient
\* lines 85-104 up to the call of get_recipe_details_by_id, which waits on the
\* network a second time: other sessions' calls run in between
get_recipe_by_ingredient(store, ingredient, max_time, r1) ==
    LET key == [ep |-> "complexSearch", includeIngredients |-> ingredient,
                maxReadyTime |-> max_time]
        f == fetch_api(store, key, r1)
        data == f.ret
    IN IF ~Truthy(data) THEN Step(Return(f, None_), <<>>)
       ELSE IF data.t # "dict" THEN Step(Raise(f, "AttributeError"), <<>>)
       ELSE IF ~(data.has /\ Len(data.items) > 0) THEN Step(Return(f, None_), <<>>)
       ELSE Step(f, <<data.items[1].id>>)

\* get_recipe_by_nutrients asking for the details of the last result
get_recipe_by_nutrients_last(store, nutrient, min_value, max_value, max_time, r1) ==
    LET key == [ep |-> "findByNutrients", nutrient |-> nutrient, min |-> min_value,
                max |-> max_value, maxReadyTime |-> max_time]
        f == fetch_api(store, key, r1)
        data == f.ret
    IN IF ~Truthy(data) THEN Step(Return(f, None_), <<>>)
       ELSE IF data.t # "list" THEN Step(Raise(f, "KeyError"), <<>>)
       ELSE Step(f, <<data.items[Len(data.items)].id>>)

\* --------------------------------------------------- get_recipe_by_nutrients
\* lines 107-128 up to the call of get_recipe_details_by_id
get_recipe_by_nutrients(store, nutrient, min_value, max_value, max_time, r1) ==
    LET key == [ep |-> "findByNutrients", nutrient |-> nutrient, min |-> min_value,
                max |-> max_value, maxReadyTime |-> max_time]
        f == fetch_api(store, key, r1)
        data == f.ret
    IN IF ~Truthy(data) THEN Step(Return(f, None_), <<>>)
       ELSE IF data.t # "list" THEN Step(Raise(f, "KeyError"), <<>>)
       ELSE Step(f, <<data.items[1].id>>)

\* ---------------------------------------------------------- get_restaurants
\* an entry of "businesses", with the keys line 386 reads
Business(i) ==
    [t |-> "business", name |-> i, rating |-> i, location |-> [address1 |-> "<nokey>"]]

Businesses(n) == [i \in 1..n |-> Business(i)]

\* answers of the Yelp search
YelpResponses ==
    Failures
    \cup {Resp("ok", Dict(FALSE, TRUE, <<>>))}
    \cup {Resp("ok", Dict(TRUE, FALSE, Businesses(n))) : n \in 0..MaxBusinesses}

\* "limit": 5 of the request's params
YelpLimit == 5

\* the body of get_restaurants: the request carries limit=5, the answer's
\* business list is returned as it came
RestaurantsBody(resp) ==
    IF resp.status = "ok"
    THEN IF resp.body.has THEN List(resp.body.items) ELSE List(<<>>)
    ELSE List(<<>>)

get_restaurants(store, location, cuisine, resp) ==
    LET key == [ep |-> "yelp", term |-> cuisine, location |-> location, limit |-> YelpLimit]
        args == <<location, cuisine>>
    IN IF args \in DOMAIN store.rest
       THEN Out(store.rest[args], "", <<>>, <<>>,
                <<MemoCall("get_restaurants", args, TRUE, 0, store.rest[args])>>, store)
       ELSE IF resp.status = "ok" /\ resp.body.t # "dict"
       THEN Out(None_, "AttributeError", <<key>>, <<resp>>, <<>>, store)
       ELSE LET v == RestaurantsBody(resp)
            IN Out(v, "", <<key>>, <<resp>>,
                   <<MemoCall("get_restaurants", args, FALSE, 1, v)>>,
                   Stores(store.fetch, store.rest @@ (args :> v)))

\* -------------------------------------------------------- scrape_allrecipes
\* the names bound in the module's namespace once lines 1-239 have run
ModuleNames ==
    {"st", "requests", "os", "SPOONACULAR_API_KEY", "YELP_API_KEY",
     "PERSONALITY_TO_CUISINE", "diet_types", "fetch_api", "get_recipe_by_personality",
     "get_recipe_by_ingredient", "get_recipe_by_nutrients", "get_recipe_details_by_id",
     "scrape_allrecipes", "get_restaurants"}

\* a category page: the hrefs of its a[href*='/recipe/'] elements
Page(links) == [t |-> "page", links |-> links]

LinkUrls == {"/recipe/1", "/recipe/2"}

CategoryResponses ==
    Failures \cup {Resp("ok", Page(l)) : l \in SeqsUpTo(LinkUrls, MaxLinks)}

\* a recipe page: h1 = the text of its first h1 ("<notag>": none); img = the
\* data-src, else src, else "" of its img.card__img ("<notag>": none);
\* ingredients, instructions = the texts of the list items and blocks selected;
\* nutrition = the "name: value" of the two-column rows of the nutrition table
\* ("<notable>": no table)
RecipePage(h1, img, ingredients, instructions, nutrition) ==
    [t |-> "recipepage", h1 |-> h1, img |-> img, ingredients |-> ingredients,
     instructions |-> instructions, nutrition |-> nutrition]

RecipePageResponses ==
    Failures
    \cup {Resp("ok", RecipePage(h, i, g, s, n)) :
            h \in {"<notag>", "Pancakes"}, i \in {"<notag>", "", "a.jpg"},
            g \in {<<>>, <<"2 eggs">>}, s \in {<<>>, <<"Mix.">>},
            n \in {<<"<notable>">>, <<"Calories: 100">>}}

\* the record built from a recipe page (lines 172-209)
Scraped(page) ==
    [t |-> "scraped",
     title |-> IF page.h1 = "<notag>" THEN "Unknown Recipe" ELSE page.h1,
     image |-> IF page.img = "<notag>" THEN "" ELSE page.img,
     ingredients |-> page.ingredients,
     instructions |-> page.instructions,
     nutrition |-> IF page.nutrition = <<"<notable>">> THEN <<>> ELSE page.nutrition]

\* scrape_allrecipes without the status check of line 150
scrape_allrecipes_unchecked(names, store, meal_type_url, pick, r1, r2) ==
    LET q1 == [ep |-> "page", url |-> meal_type_url]
        sent1 == Out(None_, "", <<q1>>, <<r1>>, <<>>, store)
    IN IF r1.status = "exc" THEN Raise(sent1, "RequestException")
       ELSE IF "BeautifulSoup" \notin names THEN Raise(sent1, "NameError")
       ELSE Return(sent1, None_)

\* names: the namespace the function's globals resolve in; pick: the index
\* random.choice selects; r1, r2: the answers to the two page requests.  The
\* function is not decorated, so every call runs the body.
scrape_allrecipes(names, store, meal_type_url, pick, r1, r2) ==
    LET q1 == [ep |-> "page", url |-> meal_type_url]
        sent1 == Out(None_, "", <<q1>>, <<r1>>, <<>>, store)
        done(o) == [o EXCEPT !.memo = <<MemoCall("scrape_allrecipes", meal_type_url,
                                                 FALSE, Len(o.reqs), o.ret)>>]
    IN IF r1.status = "exc" THEN Raise(sent1, "RequestException")
       ELSE IF r1.status # "ok" THEN done(Return(sent1, None_))
       ELSE IF "BeautifulSoup" \notin names THEN Raise(sent1, "NameError")
       ELSE IF Len(r1.body.links) = 0 THEN done(Return(sent1, None_))
       ELSE IF "random" \notin names THEN Raise(sent1, "NameError")
       ELSE LET recipe_url == r1.body.links[((pick - 1) % Len(r1.body.links)) + 1]
                q2 == [ep |-> "page", url |-> recipe_url]
                sent2 == Out(None_, "", <<q1, q2>>, <<r1, r2>>, <<>>, store)
            IN IF r2.status = "exc" THEN Raise(sent2, "RequestException")
               ELSE IF r2.status # "ok" THEN done(Return(sent2, None_))
               ELSE done(Return(sent2, Scraped(r2.body)))

\* ------------------------------------------------------ the script body
SearchTypes == {"By Personality", "By Ingredient", "By Nutrients"}

\* the names lines 253-310 bind when a search type is selected
WidgetNames(search_type) ==
    CASE search_type = "By Personality" -> {"personality", "diet", "location"}
      [] search_type = "By Ingredient" -> {"ingredient", "max_time", "location"}
      [] search_type = "By Nutrients" ->
           {"nutrient", "min_value", "max_value", "max_time", "location"}

\* the names bound when line 313 is reached (search_type is not None), or
\* when line 327 is reached without a selection
ScriptNames(search_type) ==
    ModuleNames \cup {"search_type", "recipe"}
    \cup (IF search_type = NoSel THEN {} ELSE WidgetNames(search_type))

\* the adapter lines 314-319 call for a search type, and the line of the call
Adapter(search_type) ==
    CASE search_type = "By Personality" -> "get_recipe_by_personality"
      [] search_type = "By Ingredient" -> "get_recipe_by_ingredient"
      [] search_type = "By Nutrients" -> "get_recipe_by_nutrients"

DispatchLine(search_type) ==
    CASE search_type = "By Personality" -> 315
      [] search_type = "By Ingredient" -> 317
      [] search_type = "By Nutrients" -> 319

\* lines 314-319 up to the adapter's return or its second wait: w holds the
\* widgets' values
Dispatch(store, search_type, w, r1) ==
    CASE search_type = "By Personality" ->
           Step(get_recipe_by_personality(store, w.personality, w.diet, r1), <<>>)
      [] search_type = "By Ingredient" ->
           get_recipe_by_ingredient(store, w.ingredient, w.max_time, r1)
      [] search_type = "By Nutrients" ->
           get_recipe_by_nutrients(store, w.nutrient, w.min_value, w.max_value,
                                   w.max_time, r1)

\* the answers of the endpoint the adapter of a search type asks first
SearchResponses(search_type) ==
    IF search_type = "By Nutrients" THEN ListResponses ELSE DictResponses

\* a run of the script: crash/line = the exception that ended it and where
\* ("" and 0: it ran to the end); adapter = the adapter called ("none");
\* recipe = the value of the name recipe; heads = the titles the st.subheader
\* calls of lines 328 and 355 showed; shown = the record the block of lines
\* 354-375 rendered (None_: none); welcome = line 392 ran; lookup = the
\* arguments of get_restaurants when it was called
Run(crash, line, adapter, recipe, heads, shown, welcome, lookup) ==
    [crash |-> crash, line |-> line, adapter |-> adapter, recipe |-> recipe,
     heads |-> heads, shown |-> shown, welcome |-> welcome, lookup |-> lookup]

\* recipe.get("cuisine", "")
CuisineOf(recipe) == IF recipe.cuisine = "<nokey>" THEN "" ELSE recipe.cuisine

\* recipe.get('title') as line 328 formats it
TitleOf(recipe) == IF "title" \in recipe.keys THEN "<title>" ELSE "None"

\* lines 331-350: each test reads recipe1, each body indexes recipe; the
\* exception and line of the first body that fails, <<>> when none does
FirstBlock(recipe1, recipe) ==
    IF recipe1.image # "" /\ "image" \notin recipe.keys THEN <<"KeyError", 332>>
    ELSE IF recipe1.instructions # <<>> /\ "instructions" \notin recipe.keys
    THEN <<"KeyError", 343>>
    ELSE IF recipe1.nutrition # <<>> /\ "nutrition" \notin recipe.keys
    THEN <<"KeyError", 349>>
    ELSE <<>>

\* lines 327-392, entered with recipe1 bound, which only line 324 does: recipe1
\* is None or a record of scrape_allrecipes, recipe None or a recipe object.
\* A scraped record has no "extendedIngredients" and its "nutrition" is a list
\* of "name: value" strings, so lines 365 and 372-375 read nothing from it.
\* ry answers the Yelp request.
display(store, adapter, recipe1, recipe, location, ry) ==
    LET none == Out(None_, "", <<>>, <<>>, <<>>, store)
        heads == <<TitleOf(recipe), recipe1.title>>
    IN IF ~Truthy(recipe1)
       THEN [run |-> Run("", 0, adapter, recipe, <<>>, None_, TRUE, <<>>), out |-> none]
       ELSE IF recipe.t = "None"
       THEN [run |-> Run("AttributeError", 328, adapter, recipe, <<>>, None_, FALSE, <<>>),
             out |-> none]
       ELSE IF FirstBlock(recipe1, recipe) # <<>>
       THEN [run |-> Run(FirstBlock(recipe1, recipe)[1], FirstBlock(recipe1, recipe)[2],
                         adapter, recipe, <<TitleOf(recipe)>>, None_, FALSE, <<>>),
             out |-> none]
       ELSE IF location = ""
       THEN [run |-> Run("", 0, adapter, recipe, heads, recipe1, FALSE, <<>>),
             out |-> none]
       ELSE LET o == get_restaurants(store, location, CuisineOf(recipe), ry)
            IN [run |-> Run(o.raised, IF o.raised = "" THEN 0 ELSE 380, adapter, recipe,
                            heads, recipe1, FALSE, <<location, CuisineOf(recipe)>>),
                out |-> o]

\* ---------------------------------------------------------------- state
\* store: the st.cache_data stores, shared by the sessions of the process;
\* seen: the first value each memoized call returned, by function and
\* arguments; pend: the calls that have returned from their first wait and not
\* yet from their second, each in a session (thread) of its own; last: the
\* last call to end and its outcome; calls: the calls started so far
VARIABLES store, seen, pend, last, calls

vars == <<store, seen, pend, last, calls>>

Idle == [fn |-> "none"]

Init ==
    /\ store = Stores(<<>>, <<>>)
    /\ seen = <<>>
    /\ pend = {}
    /\ last = Idle
    /\ calls = 0

\* the first results on record after the memoized calls ms
RECURSIVE Record(_, _)
Record(s, ms) ==
    IF ms = <<>> THEN s
    ELSE LET m == Head(ms)
             k == <<m.fn, m.key>>
         IN Record(IF k \in DOMAIN s THEN s ELSE s @@ (k :> m.ret), Tail(ms))

\* for each of the memoized calls ms, made with s on record: <<v>> when a call
\* with its arguments had returned v before, <<>> when none had
Priors(s, ms) ==
    [i \in DOMAIN ms |->
       IF <<ms[i].fn, ms[i].key>> \in DOMAIN s THEN <<s[<<ms[i].fn, ms[i].key>>]>>
       ELSE <<>>]

\* the outcome of a call as it is kept on record
Kept(o) ==
    [ret |-> o.ret, raised |-> o.raised, reqs |-> o.reqs, resps |-> o.resps,
     memo |-> o.memo]

\* the process starts at most MaxCalls calls
CanCall == calls < MaxCalls

\* the step of a call that took the stores to o.store
Stored(o) ==
    /\ store' = o.store
    /\ seen' = Record(seen, o.memo)

\* the call of fn with args ended with outcome o
Ended(fn, args, o, prior) ==
    last' = [fn |-> fn, args |-> args, out |-> Kept(o), prior |-> prior]

\* the call n of fn with args waits for the details of recipe id
Waiting(n, fn, args, o, prior, id, script) ==
    [call |-> n, fn |-> fn, args |-> args, out |-> Kept(o), prior |-> prior,
     id |-> id, script |-> script]

\* a call of a function that waits on the network once
Called(fn, args, o) ==
    /\ calls' = calls + 1
    /\ Stored(o)
    /\ Ended(fn, args, o, Priors(seen, o.memo))
    /\ UNCHANGED pend

\* a call of a two-step adapter made its search: it has ended, or it waits for
\* the details
Searched(fn, args, s) ==
    /\ calls' = calls + 1
    /\ Stored(s.o)
    /\ IF s.next = <<>>
       THEN Ended(fn, args, s.o, Priors(seen, s.o.memo)) /\ UNCHANGED pend
       ELSE /\ pend' = pend \cup {Waiting(calls + 1, fn, args, s.o,
                                          Priors(seen, s.o.memo), s.next[1], <<>>)}
            /\ UNCHANGED last

Diets == {NoSel, "Vegan"}

Personalities == DOMAIN PERSONALITY_TO_CUISINE \cup {NoSel, "Stoic"}

Ingredients == {"tofu"}

Nutrients == {"Protein"}

Locations == {"", "Austin, TX"}

MealTypeUrls == {"/recipes/78/breakfast-and-brunch/"}

CallPersonalityOn(P, D, R) ==
    /\ CanCall
    /\ \E p \in P, d \in D, r1 \in R :
      Called("get_recipe_by_personality", <<p, d>>,
             get_recipe_by_personality(store, p, d, r1))

CallPersonality == CallPersonalityOn({"Extraversion", NoSel}, {"Vegan"}, DictResponses)

CallIngredient ==
    /\ CanCall
    /\ \E i \in Ingredients, r1 \in DictResponses :
      Searched("get_recipe_by_ingredient", <<i, 30>>,
               get_recipe_by_ingredient(store, i, 30, r1))

CallNutrients ==
    /\ CanCall
    /\ \E n \in Nutrients, r1 \in ListResponses :
      Searched("get_recipe_by_nutrients", <<n, 20, 40, 30>>,
               get_recipe_by_nutrients(store, n, 20, 40, 30, r1))

CallScrape ==
    /\ CanCall
    /\ \E u \in MealTypeUrls, k \in 1..MaxLinks, r1 \in CategoryResponses,
          r2 \in RecipePageResponses :
      Called("scrape_allrecipes", <<u>>,
             scrape_allrecipes(ModuleNames, store, u, k, r1, r2))

CallRestaurants ==
    /\ CanCall
    /\ \E l \in Locations, c \in {"Thai"}, r \in YelpResponses :
      Called("get_restaurants", <<l, c>>, get_restaurants(store, l, c, r))

\* the script ran from line 1 to its end or to an uncaught exception; a = the
\* widgets' values and the buttons of the run
Ran(a, o, prior, run) ==
    last' = [fn |-> "script", args |-> a, out |-> Kept(o), prior |-> prior, run |-> run]

NoOut == Out(None_, "", <<>>, <<>>, <<>>, store)

Widgets ==
    [personality : {"Extraversion", NoSel}, diet : {"Vegan"}, ingredient : {"tofu"},
     nutrient : {"Protein"}, min_value : {20}, max_value : {40}, max_time : {30}]

\* lines 323-392 of the run with inputs a, reached with the value of recipe,
\* the outcome o of the requests sent so far (prior: what was on record for
\* them) and sn on record.  a.b2: the second button of line 323
ScriptTail(a, adapter, recipe, o, prior, sn) ==
    LET names == ScriptNames(a.search_type)
        run(crash, line) == Run(crash, line, adapter, recipe, <<>>, None_, FALSE, <<>>)
        stay == store' = o.store /\ seen' = sn
    IN IF a.search_type # NoSel /\ a.b2
       THEN IF ~({"meal_types", "meal_type"} \subseteq names)
            THEN Ran(a, o, prior, run("NameError", 324)) /\ stay
            ELSE \E u \in MealTypeUrls, k \in 1..MaxLinks, p1 \in CategoryResponses,
                    p2 \in RecipePageResponses, ry \in YelpResponses :
                   LET s == scrape_allrecipes(names, o.store, u, k, p1, p2)
                       d == display(s.store, adapter, s.ret, recipe, a.location, ry)
                       os == Then(o, s)
                       od == Then(os, d.out)
                   IN IF s.raised # ""
                      THEN /\ Ran(a, os, prior \o Priors(sn, s.memo), run(s.raised, 324))
                           /\ store' = s.store
                           /\ seen' = Record(sn, s.memo)
                      ELSE /\ Ran(a, od,
                                  prior \o Priors(sn, s.memo)
                                        \o Priors(Record(sn, s.memo), d.out.memo),
                                  d.run)
                           /\ store' = d.out.store
                           /\ seen' = Record(Record(sn, s.memo), d.out.memo)
       ELSE IF "recipe1" \notin names
            THEN Ran(a, o, prior, run("NameError", 327)) /\ stay
            ELSE FALSE

\* a run of the script up to its end or to the second wait of the adapter it
\* calls: the widgets' values, the two "Find Recipe" buttons and the backend's
\* answers are the inputs.  Streamlit runs the script from line 1 on every
\* interaction, each session in a thread of its own, so no name survives from
\* one run to the next; only the st.cache_data stores do, and all sessions
\* share them.  Each st.button is taken to return a boolean, whatever
\* Streamlit makes of two buttons with one label.
RunScript ==
    /\ CanCall
    /\ calls' = calls + 1
    /\ \E search_type \in SearchTypes \cup {NoSel}, w \in Widgets,
          location \in Locations, b1 \in BOOLEAN, b2 \in BOOLEAN :
         LET a == [search_type |-> search_type, w |-> w, location |-> location,
                   b1 |-> b1, b2 |-> b2]
         IN IF search_type # NoSel /\ b1
            THEN \E r1 \in SearchResponses(search_type) :
                   LET s == Dispatch(store, search_type, w, r1)
                       prior == Priors(seen, s.o.memo)
                   IN IF s.o.raised # ""
                      THEN /\ Ran(a, s.o, prior,
                                  Run(s.o.raised, DispatchLine(search_type),
                                      Adapter(search_type), None_, <<>>, None_, FALSE,
                                      <<>>))
                           /\ Stored(s.o)
                           /\ UNCHANGED pend
                      ELSE IF s.next # <<>>
                      THEN /\ pend' = pend \cup {Waiting(calls + 1, Adapter(search_type),
                                                         <<>>, s.o, prior, s.next[1],
                                                         <<a>>)}
                           /\ Stored(s.o)
                           /\ UNCHANGED last
                      ELSE /\ ScriptTail(a, Adapter(search_type), s.o.ret, s.o, prior,
                                         Record(seen, s.o.memo))
                           /\ UNCHANGED pend
            ELSE ScriptTail(a, "none", None_, NoOut, <<>>, seen) /\ UNCHANGED pend

\* a waiting call gets its details (lines 104, 128: get_recipe_details_by_id)
\* and returns them; when the script called the adapter, the run goes on from
\* lines 317, 319 to its end
FetchDetails ==
    \E p \in pend, r2 \in InfoResponses :
      LET d == get_recipe_details_by_id(store, p.id, r2)
          o == Then(p.out, d)
          prior == p.prior \o Priors(seen, d.memo)
      IN /\ pend' = pend \ {p}
         /\ UNCHANGED calls
         /\ IF p.script = <<>>
            THEN Ended(p.fn, p.args, o, prior) /\ Stored(d)
            ELSE ScriptTail(p.script[1], p.fn, o.ret, o, prior, Record(seen, d.memo))

Next ==
    \/ CallPersonality
    \/ CallIngredient
    \/ CallNutrients
    \/ FetchDetails
    \/ CallScrape
    \/ CallRestaurants
    \/ RunScript

Spec == Init /\ [][Next]_vars

\* the three Spoonacular adapters alone
NextApi ==
    \/ CallPersonality
    \/ CallIngredient
    \/ CallNutrients
    \/ FetchDetails

SpecApi == Init /\ [][NextApi]_vars

\* the two functions that call requests.get themselves
NextPages ==
    \/ CallScrape
    \/ CallRestaurants

SpecPages == Init /\ [][NextPages]_vars

\* every personality of the table, and two that are not in it
LookupCuisine ==
    CallPersonalityOn(Personalities, Diets,
                      Failures \cup {Resp("ok", Dict(TRUE, FALSE, <<Recipe(2, "Thai", {})>>))})

NextTable == LookupCuisine

SpecTable == Init /\ [][NextTable]_vars

\* ================================================================ claims
ApiAdapters ==
    {"get_recipe_by_personality", "get_recipe_by_ingredient", "get_recipe_by_nutrients"}

TwoStepAdapters == {"get_recipe_by_ingredient", "get_recipe_by_nutrients"}

\* the answer is a failure, a payload without a result list, or one whose
\* result list is empty
NoResults(fn, resp) ==
    \/ resp.status # "ok"
    \/ /\ fn # "get_recipe_by_nutrients"
       /\ resp.body.t = "dict"
       /\ (~resp.body.has \/ Len(resp.body.items) = 0)
    \/ /\ fn = "get_recipe_by_nutrients"
       /\ (resp.body.t # "list" \/ Len(resp.body.items) = 0)

ReturnedNone(o) == o.raised = "" /\ o.ret = None_

\* C1: an API adapter whose search request is answered with a non-success
\* status, a payload without a result list or an empty result list returns
\* None and raises nothing.
C1_NoResultsIsNotFound ==
    (last.fn \in ApiAdapters /\ Len(last.out.resps) >= 1
       /\ NoResults(last.fn, last.out.resps[1]))
    => ReturnedNone(last.out)

Degrading == ApiAdapters \cup {"scrape_allrecipes", "get_restaurants"}

\* C2: a transport failure on any request an adapter sends ends in None (an
\* empty list for get_restaurants); no exception leaves the adapter.
C2_TransportFailureDegrades ==
    (last.fn \in Degrading
       /\ \E i \in DOMAIN last.out.resps : last.out.resps[i].status = "exc")
    => /\ last.out.raised = ""
       /\ last.out.ret = IF last.fn = "get_restaurants" THEN List(<<>>) ELSE None_

\* C3: the random-recipe request of get_recipe_by_personality carries the first
\* cuisine of the personality's table entry ("BBQ" for "Extraversion"),
\* "Italian" for a personality that is no key (no selection included), and the
\* diet as it was passed.
C3_CuisineOfPersonality ==
    (last.fn = "get_recipe_by_personality" /\ Len(last.out.reqs) >= 1)
    => LET p == last.args[1]
           q == last.out.reqs[1]
       IN /\ q.ep = "random"
          /\ q.diet = last.args[2]
          /\ p \in DOMAIN PERSONALITY_TO_CUISINE
               => /\ q.cuisine = PERSONALITY_TO_CUISINE[p][1]
                  /\ \E i \in 1..3 : q.cuisine = PERSONALITY_TO_CUISINE[p][i]
          /\ p = "Extraversion" => q.cuisine = "BBQ"
          /\ p \notin DOMAIN PERSONALITY_TO_CUISINE => q.cuisine = "Italian"

\* C3 witness: the request for ("Extraversion", "Vegan") went out with "BBQ"
C3_Witness ==
    /\ last.fn = "get_recipe_by_personality"
    /\ last.args = <<"Extraversion", "Vegan">>
    /\ Len(last.out.reqs) = 1
    /\ last.out.reqs[1].cuisine = "BBQ"
    /\ last.out.reqs[1].diet = "Vegan"

\* C4: get_restaurants returns at most 5 venues, the first 5 of the backend's
\* list when that list is longer.
C4_AtMostFiveVenues ==
    (last.fn = "get_restaurants" /\ last.out.raised = "")
    => /\ Len(last.out.ret.items) <= 5
       /\ \A i \in DOMAIN last.out.resps :
            (last.out.resps[i].status = "ok" /\ last.out.resps[i].body.has
               /\ Len(last.out.resps[i].body.items) > 5)
            => last.out.ret.items = SubSeq(last.out.resps[i].body.items, 1, 5)

\* C5: get_restaurants called with an empty location returns an empty sequence
\* and sends no request.
C5_EmptyLocationNoRequest ==
    (last.fn = "get_restaurants" /\ last.args[1] = "")
    => /\ last.out.reqs = <<>>
       /\ last.out.raised = ""
       /\ last.out.ret = List(<<>>)

\* the positions of the detail-fetch requests among the requests of the last call
DetailRequests == {i \in DOMAIN last.out.reqs : last.out.reqs[i].ep = "information"}

\* the value fetch_api gave the last call for its search
SearchData == last.out.memo[1].ret

NonEmptyResults(fn, data) ==
    IF fn = "get_recipe_by_nutrients"
    THEN data.t = "list" /\ Len(data.items) > 0
    ELSE data.t = "dict" /\ data.has /\ Len(data.items) > 0

\* the search failed (fetch_api gave None) or gave no match: an empty array for
\* findByNutrients, an object whose "results" is absent or empty for
\* complexSearch
EmptySearch(fn, data) ==
    \/ data = None_
    \/ /\ fn = "get_recipe_by_nutrients"
       /\ data.t = "list"
       /\ data.items = <<>>
    \/ /\ fn = "get_recipe_by_ingredient"
       /\ data.t = "dict"
       /\ (~data.has \/ data.items = <<>>)

\* C6: a two-step adapter sends its detail request at most once, after the
\* search gave a non-empty result list, for the id of the first result; a
\* failed or empty search ends in None with no detail request, and a failed
\* detail fetch ends in None.
C6_DetailAfterSearch ==
    last.fn \in TwoStepAdapters
    => /\ Cardinality(DetailRequests) <= 1
       /\ \A i \in DetailRequests :
            /\ i = Len(last.out.reqs)
            /\ \A j \in 1..(i - 1) : last.out.resps[j].status = "ok"
            /\ NonEmptyResults(last.fn, SearchData)
            /\ last.out.reqs[i].id = SearchData.items[1].id
       /\ EmptySearch(last.fn, SearchData)
            => /\ ReturnedNone(last.out)
               /\ DetailRequests = {}
       /\ \A i \in DetailRequests :
            last.out.resps[i].status # "ok" => ReturnedNone(last.out)

\* C6 witness: a nutrient search answered with two different results was
\* followed by the detail request for the first
C6_Witness ==
    /\ last.fn = "get_recipe_by_nutrients"
    /\ Len(last.out.reqs) = 2
    /\ last.out.resps[1].status = "ok"
    /\ Len(last.out.resps[1].body.items) = 2
    /\ last.out.resps[1].body.items[1].id # last.out.resps[1].body.items[2].id
    /\ last.out.reqs[2] = [ep |-> "information", id |-> last.out.resps[1].body.items[1].id]

\* C7: when the category page comes back with a status other than 200,
\* scrape_allrecipes returns None and sends nothing more; a category page
\* without a recipe link is followed by no request; a second request follows
\* only a 200 category page with at least one recipe link, for one of its links.
C7_ScrapeStopsEarly ==
    last.fn = "scrape_allrecipes"
    => /\ last.out.resps[1].status = "http"
            => ReturnedNone(last.out) /\ Len(last.out.reqs) = 1
       /\ (last.out.resps[1].status = "ok" /\ last.out.resps[1].body.links = <<>>)
            => Len(last.out.reqs) = 1
       /\ Len(last.out.reqs) >= 2
            => /\ last.out.resps[1].status = "ok"
               /\ \E i \in DOMAIN last.out.resps[1].body.links :
                    last.out.reqs[2].url = last.out.resps[1].body.links[i]

\* C7 witness: a category page answered with a non-200 status ended the call
C7_Witness ==
    /\ last.fn = "scrape_allrecipes"
    /\ last.out.resps = <<Resp("http", None_)>>
    /\ Len(last.out.reqs) = 1
    /\ ReturnedNone(last.out)

\* C8 as claimed: a failed filtered random-recipe request is followed by
\* exactly one more, unfiltered, request.
C8_FallbackRequest ==
    (last.fn = "get_recipe_by_personality" /\ Len(last.out.resps) >= 1
       /\ last.out.resps[1].status # "ok")
    => /\ Len(last.out.reqs) = 2
       /\ last.out.reqs[2].ep = "random"

\* C8 as amended: a failed random-recipe request of get_recipe_by_personality is
\* followed by no request and the adapter returns None; no adapter sends a
\* request twice, and none sends another request after a failed one.
C8_NothingRetried ==
    last.fn \in ApiAdapters
    => /\ \A i, j \in DOMAIN last.out.reqs :
            last.out.reqs[i] = last.out.reqs[j] => i = j
       /\ \A i \in DOMAIN last.out.resps :
            last.out.resps[i].status # "ok"
            => i = Len(last.out.reqs) /\ ReturnedNone(last.out)
       /\ last.fn = "get_recipe_by_personality" => Len(last.out.reqs) <= 1

\* C8 witness: the random-recipe request failed and the adapter gave up
C8_Witness ==
    /\ last.fn = "get_recipe_by_personality"
    /\ Len(last.out.reqs) = 1
    /\ last.out.resps[1].status # "ok"
    /\ ReturnedNone(last.out)

\* C9: a submission calls the adapter of the selected search type; the recipe
\* it returns is the record the display block renders, None leads to the
\* not-found path, and get_restaurants is called exactly when a recipe was
\* found and a location given, with that recipe's cuisine.
C9_SubmissionDisplayed ==
    (last.fn = "script" /\ last.args.search_type # NoSel /\ last.args.b1)
    => LET r == last.run
       IN /\ r.adapter = Adapter(last.args.search_type)
          /\ Truthy(r.recipe) => r.shown = r.recipe
          /\ ~Truthy(r.recipe) => (r.welcome /\ r.shown = None_)
          /\ (r.lookup # <<>>) <=> (Truthy(r.recipe) /\ last.args.location # "")
          /\ r.lookup # <<>> => r.lookup = <<last.args.location, CuisineOf(r.recipe)>>

\* C10: a call of fetch_api, get_restaurants or scrape_allrecipes with
\* arguments already seen in the process sends no request and returns what the
\* first call returned.
C10_Memoized ==
    last.fn # "none"
    => \A i \in DOMAIN last.out.memo :
         LET m == last.out.memo[i]
         IN last.prior[i] # <<>> => (m.sent = 0 /\ m.ret = last.prior[i][1])
====
